---- MODULE Spec2Model ----
(***************************************************************************)
(* Model of the Douban metadata source plugin (src/douban/douban.py):      *)
(* get_details, Douban.to_metadata, Douban.create_query,                   *)
(* Douban.get_all_details, Douban.identify, Douban.download_cover and      *)
(* Douban.get_cached_cover_url.                                            *)
(*                                                                         *)
(* Strings are sequences of one-character strings.  The Python value None  *)
(* is the distinguished sequence None.  A falsy title (None or '') is the  *)
(* empty sequence, a falsy authors argument (None or []) the empty list.   *)
(***************************************************************************)
EXTENDS Integers, Sequences, FiniteSets, TLC

None == <<"None">>

\* ------------------------------------------------------------------ bounds
\* longest search-result list ('items') the site returns
MaxEntries == 2
\* longest title handed to create_query in the query specification
MaxTitleLen == 3
\* longest authors list handed to create_query in the query specification
MaxAuthors == 2

\* ----------------------------------------------------------------- strings
Digits == {"0", "1", "2", "3", "4", "5", "6", "7", "8", "9"}

DigitVal(c) ==
    CASE c = "0" -> 0 [] c = "1" -> 1 [] c = "2" -> 2 [] c = "3" -> 3
      [] c = "4" -> 4 [] c = "5" -> 5 [] c = "6" -> 6 [] c = "7" -> 7
      [] c = "8" -> 8 [] c = "9" -> 9

DigitChar(n) ==
    CASE n = 0 -> "0" [] n = 1 -> "1" [] n = 2 -> "2" [] n = 3 -> "3"
      [] n = 4 -> "4" [] n = 5 -> "5" [] n = 6 -> "6" [] n = 7 -> "7"
      [] n = 8 -> "8" [] n = 9 -> "9"

\* str.upper() on the characters the model uses
Upper(c) == IF c = "x" THEN "X" ELSE c

RECURSIVE Flatten(_)
Flatten(ss) == IF ss = <<>> THEN <<>> ELSE Head(ss) \o Flatten(Tail(ss))

RECURSIVE SumTo(_, _)
SumTo(f, n) == IF n = 0 THEN 0 ELSE f[n] + SumTo(f, n - 1)

\* str.strip(): whitespace removed at both ends
RECURSIVE LStrip(_)
LStrip(s) == IF s # <<>> /\ Head(s) = " " THEN LStrip(Tail(s)) ELSE s

RECURSIVE RStrip(_)
RStrip(s) ==
    IF s # <<>> /\ s[Len(s)] = " " THEN RStrip(SubSeq(s, 1, Len(s) - 1)) ELSE s

Strip(s) == RStrip(LStrip(s))

\* str.split(): the maximal runs of non-whitespace characters
RECURSIVE SplitFrom(_, _)
SplitFrom(s, cur) ==
    IF s = <<>> THEN (IF cur = <<>> THEN <<>> ELSE <<cur>>)
    ELSE IF Head(s) = " "
         THEN (IF cur = <<>> THEN <<>> ELSE <<cur>>) \o SplitFrom(Tail(s), <<>>)
         ELSE SplitFrom(Tail(s), Append(cur, Head(s)))

Split(s) == SplitFrom(s, <<>>)

\* ' '.join(parts)
RECURSIVE JoinSpace(_)
JoinSpace(parts) ==
    IF parts = <<>> THEN <<>>
    ELSE IF Len(parts) = 1 THEN parts[1]
    ELSE parts[1] \o <<" ">> \o JoinSpace(Tail(parts))

\* build_term(prefix, parts): the prefix is not used
build_term(prefix, parts) == JoinSpace(parts)

\* dict.get(key, None)
Lookup(d, k) == IF k \in DOMAIN d THEN d[k] ELSE None

\* d[key] = value
Store(d, k, v) == [x \in DOMAIN d \cup {k} |-> IF x = k THEN v ELSE d[x]]

EmptyDict == [x \in {} |-> None]

\* ------------------------------------------------------------- check_isbn
\* calibre.ebooks.metadata.check_isbn: None for a missing value, else the
\* characters 0-9 and X of the upper-cased value when they form an ISBN-10 or
\* ISBN-13 with a correct check digit
check_isbn10(s) ==
    IF \E i \in 1..9 : s[i] \notin Digits THEN None
    ELSE LET check == SumTo([i \in 1..9 |-> i * DigitVal(s[i])], 9) % 11
         IN  IF check = 10 /\ s[10] = "X" THEN s
             ELSE IF s[10] \in Digits /\ check = DigitVal(s[10]) THEN s
             ELSE None

check_isbn13(s) ==
    IF \E i \in 1..12 : s[i] \notin Digits THEN None
    ELSE LET sum == SumTo([i \in 1..12 |->
                       (IF i % 2 = 1 THEN 1 ELSE 3) * DigitVal(s[i])], 12)
             c0 == 10 - (sum % 10)
             check == IF c0 = 10 THEN 0 ELSE c0
         IN  IF s[13] = DigitChar(check) THEN s ELSE None

check_isbn(isbn) ==
    IF isbn = None \/ isbn = <<>> THEN None
    ELSE LET up == [i \in 1..Len(isbn) |-> Upper(isbn[i])]
             s == SelectSeq(up, LAMBDA c : c \in Digits \cup {"X"})
             il == Len(s)
         IN  IF il \notin {10, 13} THEN None
             ELSE IF s[1] \in Digits /\ \A i \in 1..il : s[i] = s[1] THEN None
             ELSE IF il = 10 THEN check_isbn10(s)
             ELSE check_isbn13(s)

\* ------------------------------------------------------------------ tokens
\* Source.get_title_tokens: the whitespace-separated words of the title with
\* the joiner words dropped; nothing for a falsy title
TitleJoiners == {<<"a">>, <<"&">>}

get_title_tokens(the_title) ==
    SelectSeq(Split(the_title), LAMBDA tok : tok \notin TitleJoiners)

\* Source.get_author_tokens(authors, only_first_author=True): the words of
\* the first author, "last, first" turned into "first last", words of one or
\* two characters dropped
get_author_tokens(the_authors) ==
    IF the_authors = <<>> THEN <<>>
    ELSE LET au == the_authors[1]
             has_comma == \E i \in 1..Len(au) : au[i] = ","
             spaced == [i \in 1..Len(au) |-> IF au[i] = "," THEN " " ELSE au[i]]
             parts == Split(spaced)
             turned == IF has_comma /\ parts # <<>>
                       THEN Tail(parts) \o <<Head(parts)>> ELSE parts
         IN  SelectSeq(turned, LAMBDA tok : Len(tok) > 2)

\* --------------------------------------------------------------- urlencode
\* urllib quote_plus on one character
QuoteChar(c) ==
    CASE c = " " -> <<"+">>
      [] c = "&" -> <<"%", "2", "6">>
      [] c = "+" -> <<"%", "2", "B">>
      [] c = "%" -> <<"%", "2", "5">>
      [] c = "=" -> <<"%", "3", "D">>
      [] c = "," -> <<"%", "2", "C">>
      [] OTHER -> <<c>>

quote_plus(s) == Flatten([i \in 1..Len(s) |-> QuoteChar(s[i])])

\* urlencode({'q': q})
urlencode_q(q) == <<"q", "=">> \o quote_plus(q)

BASE_URL == <<"https://www.douban.com/j/search?t=book&p=0&">>

\* ------------------------------------------------------------ create_query
\* create_query with the catalog ID tested before the ISBN
create_query_subject_first(the_title, the_authors, ids) ==
    LET isbn == check_isbn(Lookup(ids, "isbn"))
        subject == Lookup(ids, "douban")
        words == get_title_tokens(the_title) \o get_author_tokens(the_authors)
        q == Strip(IF subject # None THEN subject
                   ELSE IF isbn # None THEN isbn
                   ELSE JoinSpace(words))
    IN  IF q = <<>> THEN None ELSE BASE_URL \o urlencode_q(q)

create_query(the_title, the_authors, ids) ==
    LET isbn == check_isbn(Lookup(ids, "isbn"))
        subject == Lookup(ids, "douban")
        title_tokens == get_title_tokens(the_title)
        author_tokens == get_author_tokens(the_authors)
        q1 == IF title_tokens # <<>> THEN build_term("title", title_tokens)
              ELSE <<>>
        q2 == IF author_tokens # <<>>
              THEN q1 \o (IF q1 # <<>> THEN <<" ">> ELSE <<>>)
                      \o build_term("author", author_tokens)
              ELSE q1
        q0 == IF isbn # None THEN isbn
              ELSE IF subject # None THEN subject
              ELSE IF the_title # <<>> \/ the_authors # <<>> THEN q2
              ELSE <<>>
        q == Strip(q0)
    IN  IF q = <<>> THEN None ELSE BASE_URL \o urlencode_q(q)


\* --------------------------------------------------------- the environment
\* catalog IDs (the sid of a search entry)
D1 == <<"1">>
D2 == <<"2">>
IDs == {D1, D2}

\* the ISBN of the test in the source, an ISBN-10 written with hyphens, and
\* values check_isbn rejects
Isbn13 == <<"9", "7", "8", "7", "5", "3", "6", "6", "9", "2", "9", "3", "0">>
Isbn10 == <<"7", "-", "5", "3", "6", "6", "-", "9", "2", "9", "3", "-", "5">>
BadIsbn == <<"1", "2", "3">>
BadCheck == <<"9", "7", "8", "7", "5", "3", "6", "6", "9", "2", "9", "3", "1">>

\* og:image values of a detail page: none, the site's placeholder, a cover
DefaultCover == <<"https://img.doubanio.com/", "book-default", "-lpic.gif">>
CoverOf(id) == <<"https://img.doubanio.com/lpic/s">> \o id

\* HTTP outcomes: 200, or an exception whose getcode() gives the status;
\* -1 is an exception without getcode (a timeout, a refused connection)
FailCodes == {403, 404, -1}
Pending == 0

\* search-result entries: the regular expression does not match, it matches
\* with an empty title, or it gives a title, a details URL and a catalog ID
EntryKinds ==
    {[kind |-> "nomatch", id |-> None], [kind |-> "notitle", id |-> None]}
    \cup {[kind |-> "ok", id |-> d] : d \in IDs}

RECURSIVE SeqsUpTo(_, _)
SeqsUpTo(S, n) ==
    IF n = 0 THEN {<<>>}
    ELSE LET shorter == SeqsUpTo(S, n - 1)
         IN  shorter \cup {Append(s, x) : s \in {t \in shorter : Len(t) = n - 1}, x \in S}

\* bodies of the search response: not JSON, JSON that is no object, a JSON
\* object without 'items', a JSON object with an 'items' list
SearchBodies ==
    {[kind |-> k, items |-> <<>>] : k \in {"badjson", "scalar", "object"}}
    \cup {[kind |-> "items", items |-> es] : es \in SeqsUpTo(EntryKinds, MaxEntries)}

\* detail pages of the book id: one that does not decode or has no root, one
\* that lacks an element to_metadata indexes with [0], or a complete page
Pages(id) ==
    {[kind |-> k, isbn |-> None, cover |-> None] : k \in {"undecodable", "missing"}}
    \cup {[kind |-> "ok", isbn |-> i, cover |-> c] :
             i \in {Isbn13, BadIsbn}, c \in {<<>>, DefaultCover, CoverOf(id)}}

\* arguments of identify and download_cover: nothing to search for, a title,
\* a title and an author, these with an ISBN or a catalog ID, and an ISBN
\* with a title and an author that give no token
TheTitle == <<"t">>
TheAuthors == << <<"x", "x", "x">> >>
CallArgs ==
    {[title |-> <<>>, authors |-> <<>>, identifiers |-> EmptyDict],
     [title |-> TheTitle, authors |-> <<>>, identifiers |-> EmptyDict],
     [title |-> TheTitle, authors |-> TheAuthors, identifiers |-> EmptyDict],
     [title |-> TheTitle, authors |-> TheAuthors,
      identifiers |-> [k \in {"isbn"} |-> Isbn13]],
     [title |-> TheTitle, authors |-> <<>>,
      identifiers |-> [k \in {"douban"} |-> D1]],
     [title |-> TheTitle, authors |-> TheAuthors,
      identifiers |-> [k \in {"douban"} |-> D1]],
     [title |-> <<"a">>, authors |-> << <<"x", "x">> >>,
      identifiers |-> [k \in {"isbn"} |-> Isbn13]]}

\* what an identify invocation can be run with: the caller's arguments, and
\* the caller's title and authors with identifiers={}
Frames ==
    {<<a.title, a.authors, a.identifiers>> : a \in CallArgs}
    \cup {<<a.title, a.authors, EmptyDict>> : a \in CallArgs}

\* self.create_query(log, title=title, authors=authors,
\* identifiers=identifiers), tabulated over Frames
QueryOf == [f \in Frames |-> create_query(f[1], f[2], f[3])]

\* ------------------------------------------------------------------- state
VARIABLES
    pc,               \* position of the plugin's one thread
    op,               \* the entry point the caller used
    title, authors, identifiers,   \* the caller's arguments
    frame_ids,        \* identifiers of the running identify invocation
    abort,            \* the caller's abort event
    isbn_cache,       \* Source._isbn_to_identifier_cache
    cover_cache,      \* Source._identifier_to_cover_url_cache
    result_queue,     \* the caller's result queue
    rq,               \* download_cover's own queue
    query, raw, entries, idx,      \* identify / get_all_details locals
    ans, cover_url,   \* to_metadata's record and its cover_url local
    inflight,         \* the HTTP request being waited for
    ret,              \* identify's return value
    results, cached_url,           \* download_cover locals
    depth,            \* identify invocations below the caller's
    invSearch,        \* search GETs issued by the running identify invocation
    detailIssued,     \* a detail GET was issued during the call
    searchGets,       \* status of every search GET of the call
    gets,             \* status of every GET of the running get_details call
    coverGets,        \* cover-image GETs of the call
    identifyRuns,     \* identify calls made by download_cover
    abortAtCall,      \* the abort event was set when the call was made
    cachedAtStart,    \* get_cached_cover_url(identifiers) when the call was made
    fate,             \* what became of each entry processed so far
    begunAfterAbort,  \* entries begun while the abort event was set
    putsAfterAbort,   \* records put while the abort event was set
    detailAfterAbort  \* entries with a detail GET issued while it was set

args == <<title, authors, identifiers, abortAtCall, cachedAtStart>>
caches == <<isbn_cache, cover_cache>>
queues == <<result_queue, rq>>
locals == <<query, raw, entries, idx, ans, cover_url, ret, results, cached_url>>
http == <<inflight, searchGets, gets, coverGets, invSearch, detailIssued>>
history == <<fate, begunAfterAbort, putsAfterAbort, detailAfterAbort>>
vars == <<pc, op, args, frame_ids, abort, caches, queues, locals, http,
          depth, identifyRuns, history>>

NoAns == [kind |-> "none", id |-> None, source_relevance |-> -1,
          all_isbns |-> <<>>, has_douban_cover |-> None]

ErrText == <<"as_unicode(e)">>

CallLocals ==
    /\ query = None /\ raw = "none" /\ entries = <<>> /\ idx = 0
    /\ ans = NoAns /\ cover_url = None /\ ret = None
    /\ results = <<>> /\ cached_url = None
    /\ result_queue = <<>> /\ rq = <<>>
    /\ inflight = "none" /\ searchGets = <<>> /\ gets = <<>>
    /\ coverGets = 0 /\ invSearch = 0 /\ detailIssued = FALSE /\ depth = 0 /\ identifyRuns = 0
    /\ fate = <<>> /\ begunAfterAbort = 0 /\ putsAfterAbort = 0
    /\ detailAfterAbort = {}

Init ==
    /\ pc = "idle" /\ op = "none"
    /\ title = <<>> /\ authors = <<>> /\ identifiers = EmptyDict
    /\ frame_ids = EmptyDict /\ abort = FALSE
    /\ abortAtCall = FALSE /\ cachedAtStart = None
    /\ isbn_cache = EmptyDict /\ cover_cache = EmptyDict
    /\ CallLocals


\* ------------------------------------------------------ decisions of the code
\* get_details retrying after any failure
ShouldRetry_AnyError(attempt, code) == attempt = 1

\* get_details: the except branch re-raises unless getcode() is 403, and the
\* GET after the sleep is outside the try
ShouldRetry(attempt, code) == attempt = 1 /\ code = 403

\* to_metadata: 'if u:' and 'u.find("book-default") == -1'
has_douban_cover(u) ==
    IF u # <<>> /\ ~(\E i \in 1..Len(u) : u[i] = "book-default") THEN u ELSE None

\* to_metadata: isbns holds the page's ISBN when check_isbn accepts it
all_isbns(isbn) == IF check_isbn(isbn) # None THEN <<isbn>> ELSE <<>>

\* get_all_details numbering every record 0
Relevance_Zero(i) == 0

\* get_all_details: 'for relevance, i in enumerate(entries)'
Relevance(i) == i

\* get_all_details putting the record without caching its ISBNs
CacheIsbns_Skipped(cache, isbns, db) == cache

\* get_all_details: 'for isbn in all_isbns: cache_isbn_to_identifier(isbn, db)'
RECURSIVE CacheIsbns(_, _, _)
CacheIsbns(cache, isbns, db) ==
    IF isbns = <<>> THEN cache
    ELSE CacheIsbns(Store(cache, Head(isbns), db), Tail(isbns), db)

\* get_all_details: 'if ans.has_douban_cover: cache_identifier_to_cover_url'
CacheCover(cache, db, u) == IF u # None /\ u # <<>> THEN Store(cache, db, u) ELSE cache

\* get_all_details without the abort check
BreakLoop_Never(ab) == FALSE

\* get_all_details: 'if abort.is_set(): break'
BreakLoop(ab) == ab

\* identify: the condition of the fallback call
ShouldRerun(es, ids, t, a, ab) ==
    es = <<>> /\ DOMAIN ids # {} /\ t # <<>> /\ a # <<>> /\ ~ab

\* identify passing its identifiers on to the fallback call
RerunIdentifiers_Kept(ids) == ids

\* identify: the fallback call passes no identifiers
RerunIdentifiers(ids) == EmptyDict

\* get_cached_cover_url
get_cached_cover_url(ids, icache, ccache) ==
    LET db0 == Lookup(ids, "douban")
        isbn == Lookup(ids, "isbn")
        db == IF db0 = None
              THEN (IF isbn # None THEN Lookup(icache, isbn) ELSE None)
              ELSE db0
    IN  IF db # None THEN Lookup(ccache, db) ELSE None

\* download_cover running identify whatever the cache holds
NeedIdentify_Always(cu) == TRUE

\* download_cover: 'if cached_url is None:' runs identify
NeedIdentify(cu) == cu = None

\* the identifiers of a record: to_metadata sets 'douban', and setting mi.isbn
\* adds 'isbn'
RecordIdentifiers(rec) ==
    IF rec.all_isbns = <<>> THEN [k \in {"douban"} |-> rec.id]
    ELSE [k \in {"douban", "isbn"} |->
             IF k = "douban" THEN rec.id ELSE rec.all_isbns[1]]

\* download_cover: 'for mi in results: cached_url = ...; if not None: break'
RECURSIVE FirstCached(_, _, _, _)
FirstCached(rs, cu, icache, ccache) ==
    IF rs = <<>> THEN cu
    ELSE LET u == get_cached_cover_url(RecordIdentifiers(Head(rs)), icache, ccache)
         IN  IF u # None THEN u ELSE FirstCached(Tail(rs), u, icache, ccache)

\* download_cover without its second abort check
CoverAllowed_Always(ab) == TRUE

\* download_cover: the second 'if abort.is_set(): return'
CoverAllowed(ab) == ~ab

\* results.sort(key=identify_results_keygen(...)): the key is the host
\* application's, so the order is any arrangement of the records
Arrangements(q) ==
    {[i \in 1..Len(q) |-> q[f[i]]] :
        f \in {g \in [1..Len(q) -> 1..Len(q)] :
                 \A i, j \in 1..Len(q) : i # j => g[i] # g[j]}}

\* the locals and the call's bookkeeping as a call starts
ResetCall ==
    /\ query' = None /\ raw' = "none" /\ entries' = <<>> /\ idx' = 0
    /\ ans' = NoAns /\ cover_url' = None /\ ret' = None
    /\ results' = <<>> /\ cached_url' = None
    /\ result_queue' = <<>> /\ rq' = <<>>
    /\ inflight' = "none" /\ searchGets' = <<>> /\ gets' = <<>>
    /\ coverGets' = 0 /\ invSearch' = 0 /\ detailIssued' = FALSE /\ depth' = 0 /\ identifyRuns' = 0
    /\ fate' = <<>> /\ begunAfterAbort' = 0 /\ putsAfterAbort' = 0
    /\ detailAfterAbort' = {}

\* --------------------------------------------------------------- the caller
FreshCall(o, t, a, ids, ab) ==
    /\ pc = "idle"
    /\ op' = o /\ title' = t /\ authors' = a /\ identifiers' = ids
    /\ frame_ids' = ids /\ abort' = ab
    /\ abortAtCall' = ab
    /\ cachedAtStart' = get_cached_cover_url(ids, isbn_cache, cover_cache)
    /\ ResetCall
    /\ UNCHANGED caches

CallIdentify ==
    \E a \in CallArgs, ab \in BOOLEAN :
        /\ FreshCall("identify", a.title, a.authors, a.identifiers, ab)
        /\ pc' = "identify"

CallDownloadCover ==
    \E a \in CallArgs, ab \in BOOLEAN :
        /\ FreshCall("download_cover", a.title, a.authors, a.identifiers, ab)
        /\ pc' = "dc_start"

\* another thread sets the abort event
SetAbort ==
    /\ pc \notin {"idle", "done", "raised"}
    /\ ~abort
    /\ abort' = TRUE
    /\ UNCHANGED <<pc, op, args, frame_ids, caches, queues, locals, http,
                   depth, identifyRuns, history>>

\* ------------------------------------------------------------------ identify
\* where identify's caller continues
AfterIdentify == IF op = "identify" THEN "done" ELSE "dc_after"

SetLast(s, v) == [s EXCEPT ![Len(s)] = v]

\* identify letting the search GET's exception through
OnSearchError_Raised(code) == [pc |-> "raised", ret |-> ret]

\* identify: 'except Exception as e: ... return as_unicode(e)' around the
\* search GET
OnSearchError(code) == [pc |-> AfterIdentify, ret |-> ErrText]

\* get_all_details letting an entry's exception through
OnEntryError_Raised == "raised"

\* get_all_details: the bare 'except:' logs and goes on to the abort check
OnEntryError == "check_abort"

\* create_query, then the search GET
IdentifyStart ==
    /\ pc = "identify"
    /\ LET q == QueryOf[<<title, authors, frame_ids>>]
       IN  /\ query' = q
           /\ IF q = None
              THEN /\ ret' = None
                   /\ pc' = AfterIdentify
                   /\ UNCHANGED http
              ELSE /\ inflight' = "search"
                   /\ searchGets' = Append(searchGets, Pending)
                   /\ invSearch' = invSearch + 1
                   /\ pc' = "search_wait"
                   /\ UNCHANGED <<ret, gets, coverGets, detailIssued>>
    /\ UNCHANGED <<op, args, frame_ids, abort, caches, queues, raw, entries, idx,
                   ans, cover_url, results, cached_url, depth, identifyRuns, history>>

\* the search GET raises
SearchFail ==
    \E code \in FailCodes :
        /\ pc = "search_wait"
        /\ inflight' = "none"
        /\ searchGets' = SetLast(searchGets, code)
        /\ ret' = OnSearchError(code).ret
        /\ pc' = OnSearchError(code).pc
        /\ UNCHANGED <<op, args, frame_ids, abort, caches, queues, query, raw,
                       entries, idx, ans, cover_url, results, cached_url, gets,
                       coverGets, invSearch, detailIssued, depth, identifyRuns,
                       history>>

\* the search GET answers: json.loads, 'items', the fallback call
SearchOk ==
    \E body \in SearchBodies :
        /\ pc = "search_wait"
        /\ inflight' = "none"
        /\ searchGets' = SetLast(searchGets, 200)
        /\ raw' = body.kind
        /\ UNCHANGED <<op, args, abort, caches, queues, query, idx, ans, cover_url,
                       results, cached_url, gets, coverGets, detailIssued,
                       identifyRuns, history>>
        /\ CASE body.kind = "badjson" ->
                  /\ ret' = ErrText
                  /\ pc' = AfterIdentify
                  /\ UNCHANGED <<entries, frame_ids, depth, invSearch>>
             [] body.kind = "scalar" ->
                  /\ pc' = "raised"
                  /\ UNCHANGED <<ret, entries, frame_ids, depth, invSearch>>
             [] body.kind = "object" ->
                  /\ entries' = <<[kind |-> "dict", id |-> None]>>
                  /\ pc' = "loop"
                  /\ UNCHANGED <<ret, frame_ids, depth, invSearch>>
             [] body.kind = "items" ->
                  /\ entries' = body.items
                  /\ IF ShouldRerun(body.items, frame_ids, title, authors, abort)
                     THEN /\ frame_ids' = RerunIdentifiers(frame_ids)
                          /\ depth' = depth + 1
                          /\ invSearch' = 0
                          /\ pc' = "identify"
                     ELSE /\ pc' = "loop"
                          /\ UNCHANGED <<frame_ids, depth, invSearch>>
                  /\ UNCHANGED ret

\* get_all_details: the loop is exhausted and identify returns None
GetAllDetailsDone ==
    /\ pc = "loop"
    /\ idx = Len(entries)
    /\ ret' = None
    /\ pc' = AfterIdentify
    /\ UNCHANGED <<op, args, frame_ids, abort, caches, queues, query, raw, entries,
                   idx, ans, cover_url, results, cached_url, http, depth,
                   identifyRuns, history>>

\* get_all_details takes the next entry; to_metadata up to its detail GET
ToMetadataStart ==
    /\ pc = "loop"
    /\ idx < Len(entries)
    /\ begunAfterAbort' = begunAfterAbort + (IF abort THEN 1 ELSE 0)
    /\ cover_url' = None
    /\ LET e == entries[idx + 1]
       IN  CASE e.kind \in {"nomatch", "dict"} ->
                  /\ fate' = Append(fate, "raised")
                  /\ ans' = NoAns
                  /\ pc' = OnEntryError
                  /\ UNCHANGED <<http, detailAfterAbort>>
             [] e.kind = "notitle" ->
                  /\ fate' = Append(fate, "none")
                  /\ ans' = NoAns
                  /\ pc' = "check_abort"
                  /\ UNCHANGED <<http, detailAfterAbort>>
             [] e.kind = "ok" ->
                  /\ ans' = [NoAns EXCEPT !.kind = "partial", !.id = e.id]
                  /\ inflight' = "detail"
                  /\ gets' = <<Pending>>
                  /\ detailIssued' = TRUE
                  /\ detailAfterAbort' =
                         IF abort THEN detailAfterAbort \cup {idx} ELSE detailAfterAbort
                  /\ pc' = "detail_wait"
                  /\ UNCHANGED <<fate, searchGets, coverGets, invSearch>>
    /\ UNCHANGED <<op, args, frame_ids, abort, caches, queues, query, raw, entries,
                   idx, ret, results, cached_url, depth, identifyRuns, putsAfterAbort>>

\* a detail GET raises: get_details sleeps and retries, or to_metadata's
\* except branch returns the record as it is
DetailFail ==
    \E code \in FailCodes :
        /\ pc = "detail_wait"
        /\ inflight' = "none"
        /\ gets' = SetLast(gets, code)
        /\ pc' = IF ShouldRetry(Len(gets), code) THEN "sleep" ELSE "cache"
        /\ UNCHANGED <<op, args, frame_ids, abort, caches, queues, locals,
                       searchGets, coverGets, invSearch, detailIssued, depth,
                       identifyRuns, history>>

\* get_details after time.sleep(2): the second GET
RetryGet ==
    /\ pc = "sleep"
    /\ inflight' = "detail"
    /\ gets' = Append(gets, Pending)
    /\ detailAfterAbort' =
           IF abort THEN detailAfterAbort \cup {idx} ELSE detailAfterAbort
    /\ pc' = "detail_wait"
    /\ UNCHANGED <<op, args, frame_ids, abort, caches, queues, locals, searchGets,
                   coverGets, invSearch, detailIssued, depth, identifyRuns, fate,
                   begunAfterAbort, putsAfterAbort>>

\* a detail GET answers: the rest of to_metadata
DetailOk ==
    \E page \in Pages(ans.id) :
        /\ pc = "detail_wait"
        /\ inflight' = "none"
        /\ gets' = SetLast(gets, 200)
        /\ CASE page.kind = "undecodable" ->
                  /\ pc' = "cache"
                  /\ UNCHANGED <<ans, cover_url, fate>>
             [] page.kind = "missing" ->
                  /\ fate' = Append(fate, "raised")
                  /\ pc' = OnEntryError
                  /\ UNCHANGED <<ans, cover_url>>
             [] page.kind = "ok" ->
                  /\ ans' = [ans EXCEPT !.kind = "full",
                                        !.all_isbns = all_isbns(page.isbn),
                                        !.has_douban_cover = has_douban_cover(page.cover)]
                  /\ cover_url' = page.cover
                  /\ pc' = "cache"
                  /\ UNCHANGED fate
        /\ UNCHANGED <<op, args, frame_ids, abort, caches, queues, query, raw,
                       entries, idx, ret, results, cached_url, searchGets, coverGets,
                       invSearch, detailIssued, depth, identifyRuns,
                       begunAfterAbort, putsAfterAbort, detailAfterAbort>>

\* get_all_details: source_relevance and the two caches; a record that
\* to_metadata returned from its except branch has no has_douban_cover, and
\* reading it raises
CacheStep ==
    /\ pc = "cache"
    /\ gets' = <<>>
    /\ IF ans.kind = "partial"
       THEN /\ fate' = Append(fate, "raised")
            /\ ans' = [ans EXCEPT !.source_relevance = Relevance(idx)]
            /\ pc' = OnEntryError
            /\ UNCHANGED caches
       ELSE /\ ans' = [ans EXCEPT !.source_relevance = Relevance(idx)]
            /\ isbn_cache' = CacheIsbns(isbn_cache, ans.all_isbns, ans.id)
            /\ cover_cache' = CacheCover(cover_cache, ans.id, ans.has_douban_cover)
            /\ pc' = "put"
            /\ UNCHANGED fate
    /\ UNCHANGED <<op, args, frame_ids, abort, queues, query, raw, entries, idx,
                   cover_url, ret, results, cached_url, inflight, searchGets,
                   coverGets, invSearch, detailIssued, depth, identifyRuns,
                   begunAfterAbort, putsAfterAbort, detailAfterAbort>>

Record(a) == [id |-> a.id, source_relevance |-> a.source_relevance,
              all_isbns |-> a.all_isbns, has_douban_cover |-> a.has_douban_cover]

\* get_all_details: clean_downloaded_metadata and result_queue.put
PutStep ==
    /\ pc = "put"
    /\ IF op = "identify"
       THEN result_queue' = Append(result_queue, Record(ans)) /\ UNCHANGED rq
       ELSE rq' = Append(rq, Record(ans)) /\ UNCHANGED result_queue
    /\ fate' = Append(fate, "put")
    /\ putsAfterAbort' = putsAfterAbort + (IF abort THEN 1 ELSE 0)
    /\ pc' = "check_abort"
    /\ UNCHANGED <<op, args, frame_ids, abort, caches, locals, http, depth,
                   identifyRuns, begunAfterAbort, detailAfterAbort>>

\* get_all_details: the abort check that ends each iteration
CheckAbort ==
    /\ pc = "check_abort"
    /\ IF BreakLoop(abort)
       THEN /\ ret' = None
            /\ pc' = AfterIdentify
            /\ UNCHANGED idx
       ELSE /\ idx' = idx + 1
            /\ pc' = "loop"
            /\ UNCHANGED ret
    /\ ans' = NoAns /\ cover_url' = None /\ gets' = <<>>
    /\ UNCHANGED <<op, args, frame_ids, abort, caches, queues, query, raw, entries,
                   results, cached_url, inflight, searchGets, coverGets, invSearch,
                   detailIssued, depth, identifyRuns, history>>

\* ------------------------------------------------------------ download_cover
\* the cache lookup that decides whether identify runs
DCStart ==
    /\ pc = "dc_start"
    /\ LET u == get_cached_cover_url(identifiers, isbn_cache, cover_cache)
       IN  /\ cached_url' = u
           /\ IF NeedIdentify(u)
              THEN pc' = "identify" /\ identifyRuns' = identifyRuns + 1
              ELSE pc' = "dc_final" /\ UNCHANGED identifyRuns
    /\ UNCHANGED <<op, args, frame_ids, abort, caches, queues, query, raw, entries,
                   idx, ans, cover_url, ret, results, http, depth, history>>

\* identify has returned: the abort check, the queue drained and sorted, the
\* first cached cover URL of the results
DCAfterIdentify ==
    /\ pc = "dc_after"
    /\ IF abort
       THEN /\ pc' = "done"
            /\ UNCHANGED <<rq, results, cached_url>>
       ELSE \E sorted \in Arrangements(rq) :
                /\ rq' = <<>>
                /\ results' = sorted
                /\ cached_url' = FirstCached(sorted, cached_url, isbn_cache, cover_cache)
                /\ pc' = "dc_final"
    /\ UNCHANGED <<op, args, frame_ids, abort, caches, result_queue, query, raw,
                   entries, idx, ans, cover_url, ret, http, depth, identifyRuns,
                   history>>

\* no cover URL, or the abort event is set, or the cover GET
DCFinal ==
    /\ pc = "dc_final"
    /\ IF cached_url # None /\ CoverAllowed(abort)
       THEN /\ inflight' = "cover"
            /\ coverGets' = coverGets + 1
            /\ pc' = "cover_wait"
       ELSE /\ pc' = "done"
            /\ UNCHANGED <<inflight, coverGets>>
    /\ UNCHANGED <<op, args, frame_ids, abort, caches, queues, locals, searchGets,
                   gets, invSearch, detailIssued, depth, identifyRuns, history>>

\* the cover GET answers with data, answers with nothing, or raises
CoverResponse ==
    \E outcome \in {"data", "empty", "fail"} :
        /\ pc = "cover_wait"
        /\ inflight' = "none"
        /\ result_queue' =
               IF outcome = "data"
               THEN Append(result_queue, [plugin |-> "Douban Books", cdata |-> cached_url])
               ELSE result_queue
        /\ pc' = "done"
        /\ UNCHANGED <<op, args, frame_ids, abort, caches, rq, locals, searchGets,
                       gets, coverGets, invSearch, detailIssued, depth,
                       identifyRuns, history>>

\* ----------------------------------------------------------- specifications
IdentifyStep ==
    \/ IdentifyStart \/ SearchFail \/ SearchOk \/ GetAllDetailsDone
    \/ ToMetadataStart \/ DetailFail \/ RetryGet \/ DetailOk
    \/ CacheStep \/ PutStep \/ CheckAbort

CoverStep == DCStart \/ DCAfterIdentify \/ DCFinal \/ CoverResponse

\* one identify call on a new plugin object
Next == CallIdentify \/ SetAbort \/ IdentifyStep

Spec == Init /\ [][Next]_vars

\* every GET is made with a timeout, so it answers or raises, and the
\* plugin's thread keeps running
FairSpec == Spec /\ WF_vars(IdentifyStep)

\* the caches an earlier identify call has left on the plugin object
PriorCaches ==
    {<<EmptyDict, EmptyDict>>,
     <<[k \in {Isbn13} |-> D1], EmptyDict>>,
     <<[k \in {Isbn13} |-> D1], [k \in {D1} |-> CoverOf(D1)]>>,
     <<[k \in {Isbn13} |-> D2], [k \in IDs |-> CoverOf(k)]>>}

InitCover ==
    /\ pc = "idle" /\ op = "none"
    /\ title = <<>> /\ authors = <<>> /\ identifiers = EmptyDict
    /\ frame_ids = EmptyDict /\ abort = FALSE
    /\ abortAtCall = FALSE /\ cachedAtStart = None
    /\ \E c \in PriorCaches : isbn_cache = c[1] /\ cover_cache = c[2]
    /\ CallLocals

\* one download_cover call on a plugin object that has been in use
NextCover == CallDownloadCover \/ SetAbort \/ IdentifyStep \/ CoverStep

SpecCover == InitCover /\ [][NextCover]_vars


\* ------------------------------------------------------------ create_query
\* titles: every string of at most MaxTitleLen characters over a joiner
\* word's letter, another letter and the space
TitleChars == {"a", "t", " "}
QueryTitles == SeqsUpTo(TitleChars, MaxTitleLen)

\* author names: a word long enough to be a token, one too short, a name in
\* "last, first" form, and two words
AuthorNames ==
    {<<"x", "x", "x">>, <<"x", "x">>,
     <<"y", "y", "y", ",", " ", "x", "x", "x">>,
     <<"x", "x", "x", " ", "z", "z", "z">>}
QueryAuthors == SeqsUpTo(AuthorNames, MaxAuthors)

QueryIdentifiers ==
    {[k \in ks |-> IF k = "isbn" THEN i ELSE d] :
        ks \in SUBSET {"isbn", "douban"},
        i \in {Isbn13, Isbn10, BadIsbn, BadCheck},
        d \in {<<>>, D1, <<" ", "1", " ">>, <<"1", "&", "2">>}}

InitQuery ==
    /\ pc = "query_args" /\ op = "create_query"
    /\ title \in QueryTitles /\ authors \in QueryAuthors
    /\ identifiers \in QueryIdentifiers
    /\ frame_ids = identifiers /\ abort = FALSE
    /\ abortAtCall = FALSE /\ cachedAtStart = None
    /\ isbn_cache = EmptyDict /\ cover_cache = EmptyDict
    /\ CallLocals

CreateQuery ==
    /\ pc = "query_args"
    /\ query' = create_query(title, authors, identifiers)
    /\ pc' = "query_done"
    /\ UNCHANGED <<op, args, frame_ids, abort, caches, queues, raw, entries, idx,
                   ans, cover_url, ret, results, cached_url, http, depth,
                   identifyRuns, history>>

NextQuery == CreateQuery

SpecQuery == InitQuery /\ [][NextQuery]_vars


\* percent-decoding of the escapes quote_plus writes
Unescape(a, b) ==
    CASE <<a, b>> = <<"2", "6">> -> "&"
      [] <<a, b>> = <<"2", "B">> -> "+"
      [] <<a, b>> = <<"2", "5">> -> "%"
      [] <<a, b>> = <<"3", "D">> -> "="
      [] <<a, b>> = <<"2", "C">> -> ","
      [] OTHER -> "?"

RECURSIVE UrlDecode(_)
UrlDecode(e) ==
    IF e = <<>> THEN <<>>
    ELSE IF Head(e) = "+" THEN <<" ">> \o UrlDecode(Tail(e))
    ELSE IF Head(e) = "%" /\ Len(e) >= 3
         THEN <<Unescape(e[2], e[3])>> \o UrlDecode(SubSeq(e, 4, Len(e)))
    ELSE <<Head(e)>> \o UrlDecode(Tail(e))

RECURSIVE TotalLen(_)
TotalLen(ws) == IF ws = <<>> THEN 0 ELSE Len(Head(ws)) + TotalLen(Tail(ws))

\* the words the claim's third case names: the title tokens, then the tokens
\* of the first author alone
QueryWords ==
    get_title_tokens(title)
      \o (IF authors = <<>> THEN <<>> ELSE get_author_tokens(<<authors[1]>>))

\* C3: create_query takes its term by strict priority.  A valid ISBN (as
\* check_isbn returns it) is the whole term whatever else is given; else the
\* catalog ID, when the identifiers hold one, is the whole term; else the term
\* is the title tokens followed by the first author's tokens, with exactly one
\* space between neighbours.  The result is None exactly when the stripped
\* term is empty, and otherwise the base URL followed by q= and the
\* URL-encoding of the stripped term.
C3_CreateQueryPriority ==
    pc = "query_done" =>
        LET isbn == check_isbn(Lookup(identifiers, "isbn"))
            subject == Lookup(identifiers, "douban")
            head == Len(BASE_URL) + 2
            enc == SubSeq(query, head + 1, Len(query))
            dec == UrlDecode(enc)
        IN  /\ (query = None) <=>
                  (/\ isbn = None
                   /\ IF subject # None THEN Strip(subject) = <<>>
                      ELSE QueryWords = <<>>)
            /\ query # None =>
                  /\ SubSeq(query, 1, head) = BASE_URL \o <<"q", "=">>
                  /\ \A i \in 1..Len(enc) : enc[i] \notin {" ", "&", ",", "="}
                  /\ IF isbn # None THEN dec = isbn
                     ELSE IF subject # None THEN dec = Strip(subject)
                     ELSE /\ Split(dec) = QueryWords
                          /\ Len(dec) = TotalLen(QueryWords) + Len(QueryWords) - 1

\* C3 witness: a valid ISBN, a catalog ID, a title with a token and two
\* authors are all given, and the query is the one for the ISBN alone
C3_Witness ==
    /\ pc = "query_done"
    /\ DOMAIN identifiers = {"isbn", "douban"}
    /\ identifiers["isbn"] = Isbn10
    /\ identifiers["douban"] = D1
    /\ get_title_tokens(title) # <<>>
    /\ Len(authors) = 2
    /\ query = BASE_URL \o <<"q", "=", "7", "5", "3", "6", "6", "9", "2", "9", "3", "5">>


\* ------------------------------------------------------------------- claims
Last(q) == q[Len(q)]

PendingCount(q) == Cardinality({i \in 1..Len(q) : q[i] = Pending})

\* the queue identify was given
IdQueue == IF op = "identify" THEN result_queue ELSE rq

Started == pc \notin {"idle", "identify", "dc_start"}

\* C1: get_details issues at most two GETs for its URL; the second only
\* after the first failed with status 403 (and then always, after the sleep);
\* a first failure with any other error, and any failure of the second GET,
\* another 403 included, is raised without a further GET.  A raise of
\* get_details shows as to_metadata's except branch: the record stays partial.
C1_RetryOnceOn403 ==
    /\ Len(gets) <= 2
    /\ Len(gets) = 2 => gets[1] = 403
    /\ gets = <<403>> => pc = "sleep"
    /\ (gets # <<>> /\ Last(gets) \in FailCodes /\ gets # <<403>>) =>
          /\ pc = "cache"
          /\ ans.kind = "partial"
          /\ inflight = "none"

\* C1 witness: the GET after the sleep failed with 403 again and was raised
C1_Witness == gets = <<403, 403>> /\ pc = "cache"

\* a detail page gives a cover: its og:image is there and is not the
\* placeholder
GivesCover(u) ==
    /\ u # None /\ u # <<>>
    /\ \A i \in 1..Len(u) : u[i] # "book-default"

\* C4: when get_all_details is about to put a record, and when it has just
\* put it, the ISBN cache maps every ISBN of the record's all_isbns to the
\* record's catalog ID and, if the page gave a cover (an og:image URL without
\* 'book-default'), the cover cache maps the catalog ID to that URL; the
\* caching step of a record without a cover leaves the cover cache as it was.
C4_Reflected(rec) ==
    /\ \A i \in 1..Len(rec.all_isbns) :
           Lookup(isbn_cache, rec.all_isbns[i]) = rec.id
    /\ GivesCover(cover_url) => Lookup(cover_cache, rec.id) = cover_url

C4_AtPut ==
    /\ pc = "put" => C4_Reflected(Record(ans))
    /\ (pc = "check_abort" /\ fate # <<>> /\ Last(fate) = "put") =>
          /\ Last(IdQueue) = Record(ans)
          /\ C4_Reflected(Last(IdQueue))

C4_NoCoverStep ==
    (pc = "cache" /\ pc' = "put" /\ ~GivesCover(cover_url)) =>
        cover_cache' = cover_cache

C4_CachesReflectPut == []C4_AtPut /\ [][C4_NoCoverStep]_vars

\* C4 witness: the second entry's record is about to be put with an ISBN and
\* a cover; the first record, of another book, had the same ISBN, and the
\* ISBN cache now names the second book
C4_Witness ==
    /\ pc = "put" /\ idx = 1
    /\ ans.all_isbns = <<Isbn13>> /\ ans.has_douban_cover = CoverOf(ans.id)
    /\ Len(result_queue) = 1
    /\ result_queue[1].all_isbns = <<Isbn13>> /\ result_queue[1].id # ans.id
    /\ Lookup(isbn_cache, Isbn13) = ans.id
    /\ Lookup(cover_cache, ans.id) = CoverOf(ans.id)

\* C5: identify works through the entries one at a time and in order.  At
\* most one request is outstanding; a detail GET is outstanding only for the
\* entry at idx and only when every earlier entry has met its fate; each
\* record on the queue carries the index of the entry it was made from; the
\* records' source_relevance increases strictly along the queue (so no entry
\* has two records).
C5_OneAtATime ==
    /\ PendingCount(searchGets) + PendingCount(gets) <= 1
    /\ (PendingCount(searchGets) + PendingCount(gets) = 1) <=> inflight # "none"
    /\ Len(fate) \in {idx, idx + 1}
    /\ inflight = "detail" => Len(fate) = idx /\ idx < Len(entries)
    /\ \A k \in 1..Len(IdQueue) :
          LET r == IdQueue[k]
          IN  /\ r.source_relevance \in 0..(Len(fate) - 1)
              /\ fate[r.source_relevance + 1] = "put"
              /\ entries[r.source_relevance + 1].kind = "ok"
              /\ entries[r.source_relevance + 1].id = r.id
    /\ \A k \in 1..(Len(IdQueue) - 1) :
          IdQueue[k].source_relevance < IdQueue[k + 1].source_relevance

\* C5 witness: two entries, two records, numbered 0 and 1
C5_Witness ==
    /\ pc = "done" /\ Len(entries) = 2 /\ Len(result_queue) = 2
    /\ result_queue[1].source_relevance = 0
    /\ result_queue[2].source_relevance = 1

\* C6: while the abort event is set, get_all_details begins at most one
\* entry, issues detail GETs for at most one entry and puts at most one
\* record, wherever in the run the event was set.
C6_AbortBoundsWork ==
    /\ begunAfterAbort <= 1
    /\ putsAfterAbort <= 1
    /\ Cardinality(detailAfterAbort) <= 1

\* C6 witness: the event was set after the call was made and before the first
\* entry was taken; that entry was processed and its record put, and
\* identify returned with an entry left over
C6_Witness ==
    /\ pc = "done" /\ abort /\ ~abortAtCall
    /\ begunAfterAbort = 1 /\ putsAfterAbort = 1 /\ detailAfterAbort = {0}
    /\ Len(fate) = 1 /\ Len(entries) = 2

\* the call has written nothing and asked for no detail page
C8_Untouched ==
    /\ ~detailIssued /\ fate = <<>> /\ inflight = "none"
    /\ result_queue = <<>>
    /\ isbn_cache = EmptyDict /\ cover_cache = EmptyDict

\* C8: an identify invocation whose create_query gives no query returns None
\* without a request of its own; one whose search GET fails, with 403 or
\* anything else, returns the error text after that one GET; one whose
\* search response is not JSON returns the error text.  In each case the
\* call has issued no detail GET, put nothing, cached nothing, and no
\* exception leaves identify.
C8_EarlyFailures ==
    /\ (Started /\ query = None) =>
          /\ pc = "done" /\ ret = None /\ invSearch = 0
          /\ depth = 0 => searchGets = <<>>
          /\ C8_Untouched
    /\ (searchGets # <<>> /\ Last(searchGets) \in FailCodes) =>
          /\ pc = "done" /\ ret = ErrText /\ invSearch = 1
          /\ Len(searchGets) = depth + 1
          /\ C8_Untouched
    /\ raw = "badjson" =>
          /\ pc = "done" /\ ret = ErrText
          /\ C8_Untouched

\* C8 witness: the fallback invocation's search GET failed with 403 and
\* identify returned the error text, with no GET after it
C8_Witness ==
    /\ pc = "done" /\ depth = 1
    /\ searchGets = <<200, 403>> /\ ret = ErrText

\* C9: an entry that fails leaves no record, no exception leaves
\* get_all_details, the records of the entries that succeeded are on the
\* queue whatever happened to the others, and when identify returns from the
\* loop with the abort event not set, every entry has been processed.
C9_FailureIsolated ==
    /\ fate # <<>> => pc # "raised"
    /\ \A i \in 1..Len(fate) :
          (fate[i] = "put") <=>
              (\E k \in 1..Len(IdQueue) : IdQueue[k].source_relevance = i - 1)
    /\ (pc = "done" /\ raw \in {"items", "object"} /\ ~abort) =>
          Len(fate) = Len(entries)

\* C9 witness: the first entry's detail page was asked for and the entry
\* failed; the second entry's record is on the queue
C9_Witness ==
    /\ pc = "done" /\ Len(entries) = 2
    /\ entries[1].kind = "ok" /\ fate = <<"raised", "put">>
    /\ Len(result_queue) = 1 /\ result_queue[1].source_relevance = 1

\* C10: identify calls itself at most once, and only on an empty 'items'
\* list with identifiers, title and authors all given and the abort event
\* not set; the fallback invocation has no identifiers; a call issues at
\* most two search GETs and at most two detail GETs for an entry; and every
\* call ends, by returning or by raising.
C10_Bounded ==
    /\ depth <= 1
    /\ Len(searchGets) <= 2
    /\ Len(gets) <= 2
    /\ depth = 1 =>
          /\ frame_ids = EmptyDict
          /\ DOMAIN identifiers # {} /\ title # <<>> /\ authors # <<>>

C10_RerunStep ==
    depth' = depth + 1 =>
        /\ ~abort
        /\ raw' = "items" /\ entries' = <<>>
        /\ DOMAIN frame_ids # {} /\ title # <<>> /\ authors # <<>>
        /\ frame_ids' = EmptyDict

C10_IdentifyTerminates ==
    /\ []C10_Bounded
    /\ [][C10_RerunStep]_vars
    /\ (pc = "identify" ~> pc \in {"done", "raised"})

\* C10 witness: the fallback invocation is waiting for the second detail GET
\* of an entry
C10_Witness ==
    /\ depth = 1 /\ Len(searchGets) = 2
    /\ gets = <<403, Pending>> /\ inflight = "detail"

\* the cover URL the caches hold for a record
UrlOf(rec) == get_cached_cover_url(RecordIdentifiers(rec), isbn_cache, cover_cache)

\* u is the cached URL of the first of rs that has one, None if none has
C2_FirstWithUrl(rs, u) ==
    \/ /\ u = None
       /\ \A k \in 1..Len(rs) : UrlOf(rs[k]) = None
    \/ \E k \in 1..Len(rs) :
          /\ u # None /\ UrlOf(rs[k]) = u
          /\ \A j \in 1..(k - 1) : UrlOf(rs[j]) = None

\* C2: download_cover calls identify exactly when get_cached_cover_url of
\* its identifiers gave nothing as the call was made.  With a cached URL it
\* issues no search GET and no detail GET, and its one GET, if any, is for
\* that URL.  With none, identify is called once and has returned before any
\* cover GET, and the URL used is the cached URL of the first of the sorted
\* results that has one.
C2_IdentifyIffNotCached ==
    (op = "download_cover" /\ pc # "dc_start") =>
        /\ identifyRuns = (IF cachedAtStart = None THEN 1 ELSE 0)
        /\ coverGets <= 1
        /\ inflight = "cover" => pc = "cover_wait" /\ coverGets = 1
        /\ coverGets = 1 => pc \in {"cover_wait", "done"} /\ cached_url # None
        /\ cachedAtStart # None =>
              /\ searchGets = <<>> /\ ~detailIssued
              /\ inflight \in {"none", "cover"}
              /\ cached_url = cachedAtStart
        /\ (cachedAtStart = None /\ (coverGets = 1 \/ pc = "dc_final")) =>
              C2_FirstWithUrl(results, cached_url)

\* C2 witness: nothing was cached, identify gave two records, the first of
\* the sorted results has no cached cover and the second has, and the cover
\* GET is out for the second's URL
C2_Witness ==
    /\ op = "download_cover" /\ pc = "cover_wait" /\ cachedAtStart = None
    /\ Len(results) = 2
    /\ UrlOf(results[1]) = None
    /\ UrlOf(results[2]) = cached_url

\* C7: a download_cover call made with the abort event set issues no cover
\* GET and puts nothing on the caller's queue.
C7_AbortedCoverDownload ==
    (op = "download_cover" /\ abortAtCall) =>
        /\ coverGets = 0 /\ inflight # "cover"
        /\ result_queue = <<>>

\* C7 witness: the event was set at the call, nothing was cached, identify
\* ran and left a record whose cover URL is cached, and download_cover
\* returned
C7_Witness ==
    /\ op = "download_cover" /\ abortAtCall /\ pc = "done"
    /\ identifyRuns = 1 /\ rq # <<>> /\ UrlOf(rq[1]) # None

====
